---- MODULE Spec2Model ----
(***************************************************************************)
(* Model of src/target/riscv/riscv_tap_vjtag.c: discovery of the Altera     *)
(* Virtual JTAG (SLD) node (riscv_tap_vjtag_init) and the addressed virtual *)
(* instruction register scan (vjtag_vir_scan).                              *)
(*                                                                          *)
(* 32-bit C values (uint32_t, int) are bit vectors [0..31 -> {0,1}], bit 0   *)
(* the least significant, so that shifts, masks and truncation behave as    *)
(* they do in the 32-bit machine words of the program.                      *)
(***************************************************************************)
EXTENDS Integers, Sequences, FiniteSets

VARIABLES
    pc,                 \* position of the single thread of control
    caller,             \* who called vjtag_vir_scan: "none", "ext", "init"
    tap,                \* struct jtag_tap: [ir_length]
    nb_nodes,           \* static int nb_nodes
    m_width,            \* static int m_width
    vjtag_node_address, \* static int vjtag_node_address
    hub_info,           \* uint32_t hub_info (local of riscv_tap_vjtag_init)
    node_info,          \* uint32_t node_info (local of riscv_tap_vjtag_init)
    i,                  \* nibble loop counter
    node_index,         \* int node_index
    vir_val,            \* parameter of vjtag_vir_scan
    vret,               \* value the last vjtag_vir_scan call returned
    ret,                \* return of the last finished top-level call
    queue,              \* JTAG command queue: scans queued and not yet flushed
    dev,                \* registers the SLD hub has shifted out during this call
    nibs,               \* nibbles captured for the register being assembled
    nflush,             \* flushes attempted during this call
    nscan,              \* scans queued during this call
    virs,               \* arguments of the vjtag_vir_scan invocations of this call
    fail,               \* the flush failure of this call, if any
    build_ub,           \* how this build resolves the undefined operations
    prev                \* the last vjtag_vir_scan call since discovery began

vars == <<pc, caller, tap, nb_nodes, m_width, vjtag_node_address, hub_info,
          node_info, i, node_index, vir_val, vret, ret, queue, dev, nibs,
          nflush, nscan, virs, fail, build_ub, prev>>

----------------------------------------------------------------------------
(* Bounds of the model and the inputs it draws from.                        *)

\* Largest node count the hub reports.
MaxNodes == 3

\* Field widths (bits [7:0] of the hub word) the hub reports.
MWidths == {0, 4, 5, 32}

\* IR lengths of the TAP.
IrLengths == {10}

\* Target VIR values handed to vjtag_vir_scan by outside callers.
VirVals == {0, 5, 16}

\* What a shift by 32 or more produces in a given build: the count taken
\* modulo 32, or zero.
UBOutcomes == {"wrap", "zero"}

\* Version and manufacturer id of the hub registers.
HubFlavours == {<<0, 110>>, <<31, 1134>>}

\* Contents of the uninitialised upper four bits of the local 'nibble'.
Garbage == {0, 15}

----------------------------------------------------------------------------
(* Program constants.                                                       *)

ALTERA_CYCLONE_CMD_USER1 == 14
ALTERA_CYCLONE_CMD_USER0 == 12
RISCV_DEBUG_DTMCS == 16
RISCV_DEBUG_DMI == 17
JTAG_TO_AVALON_NODE_ID == 132
VJTAG_NODE_ID == 8
SIGNAL_TAP_NODE_ID == 0
SERIAL_FLASH_LOADER_NODE_ID == 4

ERROR_OK == 0
ERROR_FAIL == -4
ERROR_JTAG_QUEUE_FAILED == -104

\* Values jtag_execute_queue returns.
RetCodes == {ERROR_OK, ERROR_FAIL, ERROR_JTAG_QUEUE_FAILED}

----------------------------------------------------------------------------
(* 32-bit words.                                                            *)

Bits32 == 0..31

Zero32 == [b \in Bits32 |-> 0]

\* Bit b of the natural number n.
BitOf(n, b) == IF b <= 30 THEN (n \div (2^b)) % 2 ELSE 0

\* A non-negative int as a 32-bit word.
U32(n) == [b \in Bits32 |-> BitOf(n, b)]

\* An int as a 32-bit two's complement word.
I32(n) == IF n >= 0 THEN U32(n) ELSE [b \in Bits32 |-> 1 - BitOf(-n - 1, b)]

\* x >> k on uint32_t, k < 32.
ShrU32(x, k) == [b \in Bits32 |-> IF b + k <= 31 THEN x[b + k] ELSE 0]

\* x << k on a 32-bit word, k < 32 (bits shifted past bit 31 are lost).
ShlU32(x, k) == [b \in Bits32 |-> IF b >= k THEN x[b - k] ELSE 0]

\* x << k where k may be 32 or more, which C leaves undefined.
ShlUB(x, k, ub) ==
    IF k < 32 THEN ShlU32(x, k)
    ELSE IF ub = "wrap" THEN ShlU32(x, k % 32)
    ELSE Zero32

AndU32(x, y) == [b \in Bits32 |-> x[b] * y[b]]

OrU32(x, y) == [b \in Bits32 |-> IF x[b] = 1 \/ y[b] = 1 THEN 1 ELSE 0]

RECURSIVE SumBits(_, _)
SumBits(x, b) == IF b < 0 THEN 0 ELSE x[b] * (2^b) + SumBits(x, b - 1)

\* The value of a word that fits an int (bit 31 clear).
ToInt(x) == SumBits(x, 30)

----------------------------------------------------------------------------
(* Field macros and guess_addr_width.                                       *)

VER(x) == ToInt(AndU32(ShrU32(x, 27), U32(31)))
\* Mutant: the node count taken one bit too low.
NB_NODES_Shift18(x) == ToInt(AndU32(ShrU32(x, 18), U32(255)))

NB_NODES(x) == ToInt(AndU32(ShrU32(x, 19), U32(255)))
ID(x) == ToInt(AndU32(ShrU32(x, 19), U32(255)))
MANUF(x) == ToInt(AndU32(ShrU32(x, 8), U32(2047)))
M_WIDTH(x) == ToInt(AndU32(ShrU32(x, 0), U32(255)))
INST_ID(x) == ToInt(AndU32(ShrU32(x, 0), U32(255)))

RECURSIVE AddrWidthLoop(_, _)
AddrWidthLoop(n, width) ==
    IF n # 0 THEN AddrWidthLoop(n \div 2, (width + 1) % 256) ELSE width

\* Mutant: the loop stops at 1, giving floor(log2) of the node count.
guess_addr_width_Floor(number_of_nodes) ==
    AddrWidthLoop((number_of_nodes % 256) \div 2, 0)

\* The int argument is converted to unsigned char.
guess_addr_width(number_of_nodes) == AddrWidthLoop(number_of_nodes % 256, 0)

\* Mutant: nibbles shifted in from the bottom, first nibble most significant.
AccumulateNibble_MsbFirst(acc, nibble) ==
    OrU32(ShlU32(acc, 4), AndU32(U32(nibble), U32(15)))

\* hub_info = ((hub_info >> 4) | ((nibble & 0xf) << 28))
AccumulateNibble(acc, nibble) ==
    OrU32(ShrU32(acc, 4), ShlU32(AndU32(U32(nibble), U32(15)), 28))

\* if (ID(node_info) == VJTAG_NODE_ID)
IsVjtagNode(info) == ID(info) = VJTAG_NODE_ID

\* Mutant: the 0-based loop index recorded as the address.
NodeAddress_ZeroBased(index) == index

\* vjtag_node_address = node_index + 1
NodeAddress(index) == index + 1

----------------------------------------------------------------------------
(* The byte buffer t[4] and buf_set_u32.                                    *)

\* Bit j of a uint32_t as buf_set_u32 reads it with (value >> j) & 1; for
\* j >= 32 the shift is undefined.
ValueBit(value, j, ub) ==
    IF j <= 31 THEN value[j]
    ELSE IF ub = "wrap" THEN value[j % 32]
    ELSE 0

BufSize(t) == Cardinality(DOMAIN t)

\* buf_set_u32(t, 0, num, value): bits 0..num-1 of the buffer are set from
\* value, the others keep their contents. With num > 32 the loop writes past
\* the four bytes of t.
BufSetU32(t, num, value, ub) ==
    [b \in 0..((IF num > BufSize(t) THEN num ELSE BufSize(t)) - 1) |->
        IF b < num THEN ValueBit(value, b, ub) ELSE t[b]]

\* The num_bits bits a scan shifts out of the buffer field.out_value names.
ScanOut(t, num_bits) == [b \in 0..(num_bits - 1) |-> t[b]]

EmptyBits == [b \in {} |-> 0]

----------------------------------------------------------------------------
(* Commands handed to the JTAG engine.                                      *)

\* jtag_add_tlr()
TlrCmd ==
    [kind |-> "tlr", num_bits |-> 0, has_out |-> FALSE, out |-> EmptyBits,
     capture |-> FALSE]

\* jtag_add_ir_scan(tap, &field, TAP_IDLE) with field.out_value = t
IrScan(t, num_bits) ==
    [kind |-> "ir", num_bits |-> num_bits, has_out |-> TRUE,
     out |-> ScanOut(t, num_bits), capture |-> FALSE]

\* jtag_add_dr_scan with field.out_value = t, field.in_value = NULL
DrScanOut(t, num_bits) ==
    [kind |-> "dr", num_bits |-> num_bits, has_out |-> TRUE,
     out |-> ScanOut(t, num_bits), capture |-> FALSE]

\* jtag_add_dr_scan with field.out_value = NULL
DrScanIn(num_bits, capture) ==
    [kind |-> "dr", num_bits |-> num_bits, has_out |-> FALSE,
     out |-> EmptyBits, capture |-> capture]

\* Mutant: the hub is selected with 32 zero bits.
HubSelectScan_32 == DrScanIn(32, FALSE)

\* Select the SLD hub: 64 bits, no out value, nothing captured.
HubSelectScan == DrScanIn(64, FALSE)

\* One four-bit nibble scan capturing into 'nibble'.
NibbleScan == DrScanIn(4, TRUE)

----------------------------------------------------------------------------
(* The SLD hub: the registers it shifts out, four bits per DR scan.         *)

\* Register layout: 31..27 version, 26..19 node count or node id,
\* 18..8 manufacturer id, 7..0 field width or instance id.
MkReg(r) ==
    [b \in Bits32 |->
        IF b <= 7 THEN BitOf(r.low, b)
        ELSE IF b <= 18 THEN BitOf(r.manuf, b - 8)
        ELSE IF b <= 26 THEN BitOf(r.id, b - 19)
        ELSE BitOf(r.ver, b - 27)]

\* NIBBLE k of a register, NIBBLE0 shifted out first.
DevNibble(r, k) ==
    LET w == MkReg(r)
    IN  w[4 * k] + 2 * w[4 * k + 1] + 4 * w[4 * k + 2] + 8 * w[4 * k + 3]

\* Hub IP configuration registers a device may hold.
HubRegs ==
    {[ver |-> f[1], id |-> n, manuf |-> f[2], low |-> m] :
        n \in 0..MaxNodes, m \in MWidths, f \in HubFlavours}

\* SLD_NODE_INFO registers a device may hold.
NodeRegs ==
    {[ver |-> 0, id |-> SIGNAL_TAP_NODE_ID, manuf |-> 110, low |-> 0],
     [ver |-> 0, id |-> VJTAG_NODE_ID, manuf |-> 110, low |-> 1],
     [ver |-> 31, id |-> VJTAG_NODE_ID, manuf |-> 1134, low |-> 255],
     [ver |-> 1, id |-> JTAG_TO_AVALON_NODE_ID, manuf |-> 110, low |-> 0]}

----------------------------------------------------------------------------
(* Initial state: the statics as the C runtime initialises them.            *)

NoRet == [fn |-> "none", val |-> 0]
NoFail == [at |-> 0, scans |-> 0, code |-> 0]
NoPrev == [valid |-> FALSE, vir |-> 0, scans |-> <<>>]

Init ==
    /\ pc = "idle"
    /\ caller = "none"
    /\ tap \in [ir_length : IrLengths]
    /\ nb_nodes = 0
    /\ m_width = 0
    /\ vjtag_node_address = -1
    /\ hub_info = Zero32
    /\ node_info = Zero32
    /\ i = 0
    /\ node_index = 0
    /\ vir_val = 0
    /\ vret = 0
    /\ ret = NoRet
    /\ queue = <<>>
    /\ dev = <<>>
    /\ nibs = <<>>
    /\ nflush = 0
    /\ nscan = 0
    /\ virs = <<>>
    /\ fail = NoFail
    /\ build_ub \in UBOutcomes
    /\ prev = NoPrev

statics == <<nb_nodes, m_width, vjtag_node_address>>

\* Mutant: only ERROR_FAIL is taken for a failure.
FlushFailed_OnlyFail(retval) == retval = ERROR_FAIL

\* if (retval != ERROR_OK) return retval;
FlushFailed(retval) == retval # ERROR_OK

\* jtag_execute_queue() returning rv: the queue is executed and emptied.
Flushing(rv) ==
    /\ queue' = <<>>
    /\ nflush' = nflush + 1
    /\ fail' = IF rv # ERROR_OK
               THEN [at |-> nflush + 1, scans |-> nscan, code |-> rv]
               ELSE fail

\* A top-level call returns val; its locals go out of scope.
ReturnFrom(fn, val) ==
    /\ pc' = "idle"
    /\ ret' = [fn |-> fn, val |-> val]
    /\ caller' = "none"
    /\ hub_info' = Zero32
    /\ node_info' = Zero32
    /\ i' = 0
    /\ node_index' = 0
    /\ vir_val' = 0

----------------------------------------------------------------------------
(* riscv_tap_vjtag_init                                                     *)

\* Mutant: the node address is reset on entry, not at line 241.
CallInit_ResetsFirst ==
    /\ pc = "idle"
    /\ LET t1 == BufSetU32(Zero32, tap.ir_length,
                           U32(ALTERA_CYCLONE_CMD_USER1), "wrap")
           t2 == BufSetU32(t1, tap.ir_length,
                           U32(ALTERA_CYCLONE_CMD_USER0), "wrap")
       IN  queue' = queue \o <<TlrCmd, IrScan(t1, tap.ir_length),
                               HubSelectScan, IrScan(t2, tap.ir_length)>>
    /\ pc' = "L194"
    /\ caller' = "none"
    /\ ret' = NoRet
    /\ vret' = 0
    /\ dev' = <<>>
    /\ nibs' = <<>>
    /\ nflush' = 0
    /\ nscan' = 3
    /\ virs' = <<>>
    /\ fail' = NoFail
    /\ prev' = NoPrev
    /\ vjtag_node_address' = -1
    /\ UNCHANGED <<tap, build_ub, nb_nodes, m_width, hub_info, node_info, i,
                   node_index, vir_val>>

\* Lines 98-192: TAP reset, USER1, 64 zero bits, USER0 are queued.
CallInit ==
    /\ pc = "idle"
    /\ LET t1 == BufSetU32(Zero32, tap.ir_length,
                           U32(ALTERA_CYCLONE_CMD_USER1), "wrap")
           t2 == BufSetU32(t1, tap.ir_length,
                           U32(ALTERA_CYCLONE_CMD_USER0), "wrap")
       IN  queue' = queue \o <<TlrCmd, IrScan(t1, tap.ir_length),
                               HubSelectScan, IrScan(t2, tap.ir_length)>>
    /\ pc' = "L194"
    /\ caller' = "none"
    /\ ret' = NoRet
    /\ vret' = 0
    /\ dev' = <<>>
    /\ nibs' = <<>>
    /\ nflush' = 0
    /\ nscan' = 3
    /\ virs' = <<>>
    /\ fail' = NoFail
    /\ prev' = NoPrev
    /\ UNCHANGED <<tap, build_ub, statics, hub_info, node_info, i, node_index,
                   vir_val>>

\* Lines 194-199: the first flush.
Flush194 ==
    /\ pc = "L194"
    /\ \E rv \in RetCodes :
        /\ Flushing(rv)
        /\ IF FlushFailed(rv)
           THEN ReturnFrom("init", rv)
           ELSE /\ pc' = "L201"
                /\ hub_info' = Zero32
                /\ i' = 0
                /\ UNCHANGED <<ret, caller, node_info, node_index, vir_val>>
    /\ UNCHANGED <<tap, build_ub, prev, statics, vret, dev, nibs, nscan,
                   virs>>

\* Lines 201-205: one nibble scan of the hub configuration is queued.
HubScan ==
    /\ pc = "L201"
    /\ i < 8
    /\ queue' = Append(queue, NibbleScan)
    /\ nscan' = nscan + 1
    /\ pc' = "L206"
    /\ UNCHANGED <<caller, tap, build_ub, prev, statics, hub_info, node_info,
                   i, node_index, vir_val, vret, ret, dev, nibs, nflush, virs,
                   fail>>

\* Lines 206-209: the nibble scan is flushed and the nibble accumulated.
HubFlush ==
    /\ pc = "L206"
    /\ \E rv \in RetCodes :
        /\ Flushing(rv)
        /\ IF FlushFailed(rv)
           THEN /\ ReturnFrom("init", rv)
                /\ UNCHANGED <<dev, nibs>>
           ELSE \E r \in (IF i = 0 THEN HubRegs ELSE {dev[Len(dev)]}),
                   g \in Garbage :
                /\ hub_info' = AccumulateNibble(hub_info,
                                                DevNibble(r, i) + 16 * g)
                /\ dev' = IF i = 0 THEN Append(dev, r) ELSE dev
                /\ nibs' = Append(IF i = 0 THEN <<>> ELSE nibs,
                                  DevNibble(r, i))
                /\ i' = i + 1
                /\ pc' = "L201"
                /\ UNCHANGED <<ret, caller, node_info, node_index, vir_val>>
    /\ UNCHANGED <<tap, build_ub, prev, statics, vret, nscan, virs>>

\* Mutant: the node address of an earlier run is not reset (line 241 left
\* out).
HubDecode_NoReset ==
    /\ pc = "L201"
    /\ ~(i < 8)
    /\ nb_nodes' = NB_NODES(hub_info)
    /\ m_width' = M_WIDTH(hub_info)
    /\ node_info' = Zero32
    /\ node_index' = 0
    /\ pc' = "L244"
    /\ UNCHANGED <<caller, tap, build_ub, prev, vjtag_node_address, hub_info,
                   i, vir_val, vret, ret, queue, dev, nibs, nflush, nscan,
                   virs, fail>>

\* Lines 212-243: the hub word is decoded and enumeration set up.
HubDecode ==
    /\ pc = "L201"
    /\ ~(i < 8)
    /\ nb_nodes' = NB_NODES(hub_info)
    /\ m_width' = M_WIDTH(hub_info)
    /\ vjtag_node_address' = -1
    /\ node_info' = Zero32
    /\ node_index' = 0
    /\ pc' = "L244"
    /\ UNCHANGED <<caller, tap, build_ub, prev, hub_info, i, vir_val, vret,
                   ret, queue, dev, nibs, nflush, nscan, virs, fail>>

\* Mutant: the loop test is node_index <= nb_nodes.
NodeLoop_Inclusive ==
    /\ pc = "L244"
    /\ IF node_index <= nb_nodes
       THEN pc' = "L246" /\ i' = 0
       ELSE pc' = "L269" /\ i' = i
    /\ UNCHANGED <<caller, tap, build_ub, prev, statics, hub_info, node_info,
                   node_index, vir_val, vret, ret, queue, dev, nibs, nflush,
                   nscan, virs, fail>>

\* Line 244: the test of the enumeration loop.
NodeLoop ==
    /\ pc = "L244"
    /\ IF node_index < nb_nodes
       THEN pc' = "L246" /\ i' = 0
       ELSE pc' = "L269" /\ i' = i
    /\ UNCHANGED <<caller, tap, build_ub, prev, statics, hub_info, node_info,
                   node_index, vir_val, vret, ret, queue, dev, nibs, nflush,
                   nscan, virs, fail>>

\* Lines 246-250: one nibble scan of a node info register is queued.
NodeScan ==
    /\ pc = "L246"
    /\ i < 8
    /\ queue' = Append(queue, NibbleScan)
    /\ nscan' = nscan + 1
    /\ pc' = "L251"
    /\ UNCHANGED <<caller, tap, build_ub, prev, statics, hub_info, node_info,
                   i, node_index, vir_val, vret, ret, dev, nibs, nflush, virs,
                   fail>>

\* Lines 251-254: the nibble scan is flushed and the nibble accumulated.
NodeFlush ==
    /\ pc = "L251"
    /\ \E rv \in RetCodes :
        /\ Flushing(rv)
        /\ IF FlushFailed(rv)
           THEN /\ ReturnFrom("init", rv)
                /\ UNCHANGED <<dev, nibs>>
           ELSE \E r \in (IF i = 0 THEN NodeRegs ELSE {dev[Len(dev)]}),
                   g \in Garbage :
                /\ node_info' = AccumulateNibble(node_info,
                                                 DevNibble(r, i) + 16 * g)
                /\ dev' = IF i = 0 THEN Append(dev, r) ELSE dev
                /\ nibs' = Append(IF i = 0 THEN <<>> ELSE nibs,
                                  DevNibble(r, i))
                /\ i' = i + 1
                /\ pc' = "L246"
                /\ UNCHANGED <<ret, caller, hub_info, node_index, vir_val>>
    /\ UNCHANGED <<tap, build_ub, prev, statics, vret, nscan, virs>>

\* Lines 265-267: the node id is tested and the next node taken.
NodeCheck ==
    /\ pc = "L246"
    /\ ~(i < 8)
    /\ vjtag_node_address' = IF IsVjtagNode(node_info)
                             THEN NodeAddress(node_index)
                             ELSE vjtag_node_address
    /\ node_index' = node_index + 1
    /\ pc' = "L244"
    /\ UNCHANGED <<caller, tap, build_ub, prev, nb_nodes, m_width, hub_info,
                   node_info, i, vir_val, vret, ret, queue, dev, nibs, nflush,
                   nscan, virs, fail>>

\* int dr_length = guess_addr_width(nb_nodes) + m_width
DrLength == guess_addr_width(nb_nodes) + m_width

\* Mutant: the node address is not shifted above the VIR value.
VirPayload_NoShift(vir, ub) == OrU32(I32(vjtag_node_address), U32(vir))

\* (vjtag_node_address << m_width) | vir_val, converted to uint32_t
VirPayload(vir, ub) ==
    OrU32(ShlUB(I32(vjtag_node_address), m_width, ub), U32(vir))

\* Mutant: the DR chain is selected before the payload is scanned.
VirQueueScans_User0First(vir, ub) ==
    LET t1 == BufSetU32(Zero32, tap.ir_length,
                        U32(ALTERA_CYCLONE_CMD_USER0), ub)
        t2 == BufSetU32(t1, DrLength, VirPayload(vir, ub), ub)
        t3 == BufSetU32(t2, tap.ir_length,
                        U32(ALTERA_CYCLONE_CMD_USER1), ub)
    IN  <<IrScan(t1, tap.ir_length), DrScanOut(t2, DrLength),
          IrScan(t3, tap.ir_length)>>

\* Lines 305-328 of vjtag_vir_scan: USER1, the payload and USER0, as queued.
VirQueueScans(vir, ub) ==
    LET t1 == BufSetU32(Zero32, tap.ir_length,
                        U32(ALTERA_CYCLONE_CMD_USER1), ub)
        t2 == BufSetU32(t1, DrLength, VirPayload(vir, ub), ub)
        t3 == BufSetU32(t2, tap.ir_length,
                        U32(ALTERA_CYCLONE_CMD_USER0), ub)
    IN  <<IrScan(t1, tap.ir_length), DrScanOut(t2, DrLength),
          IrScan(t3, tap.ir_length)>>

\* Mutant: 0 taken for the "not found" sentinel.
NotFound_Zero(address) == address = 0

\* if (vjtag_node_address < 0)
NotFound(address) == address < 0

\* The selector discovery hands to vjtag_vir_scan (line 274).
SmokeTestVir == RISCV_DEBUG_DTMCS

\* Lines 269-274: no node found, or vjtag_vir_scan is called and runs up to
\* its flush.
EnumDone ==
    /\ pc = "L269"
    /\ IF NotFound(vjtag_node_address)
       THEN /\ ReturnFrom("init", ERROR_FAIL)
            /\ UNCHANGED <<queue, nscan, virs>>
       ELSE /\ queue' = queue \o VirQueueScans(SmokeTestVir, build_ub)
            /\ nscan' = nscan + 3
            /\ virs' = Append(virs, SmokeTestVir)
            /\ vir_val' = SmokeTestVir
            /\ caller' = "init"
            /\ pc' = "L330"
            /\ UNCHANGED <<ret, hub_info, node_info, i, node_index>>
    /\ UNCHANGED <<tap, build_ub, prev, statics, vret, dev, nibs, nflush,
                   fail>>

\* Mutant: the scanner's result is dropped.
Return274_Ok(scanner_result) == ERROR_OK

\* What riscv_tap_vjtag_init returns at line 274.
Return274(scanner_result) == scanner_result

\* Line 274: the scanner's result is returned.
InitReturn ==
    /\ pc = "L274"
    /\ ReturnFrom("init", Return274(vret))
    /\ UNCHANGED <<tap, build_ub, prev, statics, vret, queue, dev, nibs,
                   nflush, nscan, virs, fail>>

----------------------------------------------------------------------------
(* vjtag_vir_scan                                                           *)

\* A caller outside this file invokes vjtag_vir_scan(tap, v), which runs up
\* to its flush (lines 303-328).
CallVirScan ==
    /\ pc = "idle"
    /\ \E v \in VirVals :
        /\ vir_val' = v
        /\ virs' = <<v>>
        /\ queue' = queue \o VirQueueScans(v, build_ub)
    /\ pc' = "L330"
    /\ caller' = "ext"
    /\ ret' = NoRet
    /\ vret' = 0
    /\ dev' = <<>>
    /\ nibs' = <<>>
    /\ nflush' = 0
    /\ nscan' = 3
    /\ fail' = NoFail
    /\ UNCHANGED <<tap, build_ub, prev, statics, hub_info, node_info, i,
                   node_index>>

\* Mutant: a failed flush invalidates the recorded node address.
VirFlush_ForgetsOnFailure ==
    /\ pc = "L330"
    /\ \E rv \in RetCodes :
        /\ Flushing(rv)
        /\ vret' = rv
        /\ vjtag_node_address' = IF rv # ERROR_OK THEN -1
                                 ELSE vjtag_node_address
        /\ IF caller = "init"
           THEN /\ pc' = "L274"
                /\ UNCHANGED <<ret, caller, hub_info, node_info, i,
                               node_index, vir_val>>
           ELSE ReturnFrom("vir", rv)
    /\ prev' = [valid |-> TRUE, vir |-> vir_val, scans |-> queue]
    /\ UNCHANGED <<tap, build_ub, nb_nodes, m_width, dev, nibs, nscan, virs>>

\* Line 330: the flush; its result is the result of vjtag_vir_scan.
VirFlush ==
    /\ pc = "L330"
    /\ \E rv \in RetCodes :
        /\ Flushing(rv)
        /\ vret' = rv
        /\ IF caller = "init"
           THEN /\ pc' = "L274"
                /\ UNCHANGED <<ret, caller, hub_info, node_info, i,
                               node_index, vir_val>>
           ELSE ReturnFrom("vir", rv)
    /\ prev' = [valid |-> TRUE, vir |-> vir_val, scans |-> queue]
    /\ UNCHANGED <<tap, build_ub, statics, dev, nibs, nscan, virs>>

----------------------------------------------------------------------------

Next ==
    \/ CallInit
    \/ Flush194
    \/ HubScan
    \/ HubFlush
    \/ HubDecode
    \/ NodeLoop
    \/ NodeScan
    \/ NodeFlush
    \/ NodeCheck
    \/ EnumDone
    \/ InitReturn
    \/ CallVirScan
    \/ VirFlush

Spec == Init /\ [][Next]_vars

\* The steps of the program itself, the calls from outside left out.
ProgramStep ==
    \/ Flush194
    \/ HubScan
    \/ HubFlush
    \/ HubDecode
    \/ NodeLoop
    \/ NodeScan
    \/ NodeFlush
    \/ NodeCheck
    \/ EnumDone
    \/ InitReturn
    \/ VirFlush

\* The thread of control keeps running and every jtag_execute_queue returns.
LiveSpec == Spec /\ WF_vars(ProgramStep)

----------------------------------------------------------------------------
(* vjtag_vir_scan over the whole range of the node count field: the scanner *)
(* called in the state a discovery leaves that decoded the hub word and     *)
(* then found no node (no node to read, or the first node flush failed).    *)

\* Largest value of the eight-bit node count field.
MaxNodeCount == 255

\* Hub IP configuration registers with any node count.
WideHubRegs ==
    {[ver |-> 0, id |-> n, manuf |-> 110, low |-> m] :
        n \in 0..MaxNodeCount, m \in {0, 5}}

WidthInit ==
    \E r \in WideHubRegs :
        /\ pc = "idle"
        /\ caller = "none"
        /\ tap \in [ir_length : IrLengths]
        /\ nb_nodes = NB_NODES(MkReg(r))
        /\ m_width = M_WIDTH(MkReg(r))
        /\ vjtag_node_address = -1
        /\ hub_info = Zero32
        /\ node_info = Zero32
        /\ i = 0
        /\ node_index = 0
        /\ vir_val = 0
        /\ vret = 0
        /\ queue = <<>>
        /\ dev = <<r>>
        /\ nibs = [k \in 1..8 |-> DevNibble(r, k - 1)]
        /\ virs = <<>>
        /\ build_ub \in UBOutcomes
        /\ prev = NoPrev
        /\ IF r.id = 0
           THEN /\ ret = [fn |-> "init", val |-> ERROR_FAIL]
                /\ nflush = 9
                /\ nscan = 11
                /\ fail = NoFail
           ELSE /\ ret = [fn |-> "init", val |-> ERROR_JTAG_QUEUE_FAILED]
                /\ nflush = 10
                /\ nscan = 12
                /\ fail = [at |-> 10, scans |-> 12,
                           code |-> ERROR_JTAG_QUEUE_FAILED]

WidthNext ==
    \/ CallVirScan
    \/ VirFlush

WidthSpec == WidthInit /\ [][WidthNext]_vars

----------------------------------------------------------------------------
(* Vocabulary of the properties, in terms of what the hub shifted out.      *)

\* The node count the hub reported in this call.
DevN == dev[1].id

\* Every nibble of the hub register and of the DevN node registers was
\* captured: all these flushes succeeded.
EnumComplete ==
    /\ Len(dev) >= 1
    /\ Len(dev) = DevN + 1
    /\ Len(nibs) = 8

\* The id the hub reported for the node at enumeration position k (0-based).
DevNodeId(k) == dev[k + 2].id

\* The positions at which the hub returned a Virtual JTAG node.
VjtagPositions == {k \in 0..(Len(dev) - 2) : DevNodeId(k) = VJTAG_NODE_ID}

\* The register with NIBBLE j = ns[j + 1]: v7<<28 | v6<<24 | ... | v0<<0.
Assembled(ns) == [b \in Bits32 |-> BitOf(ns[(b \div 4) + 1], b % 4)]

\* Bit b of (A << W) | T for T < 2^W.
ComposedBit(A, W, T, b) == IF b < W THEN BitOf(T, b) ELSE BitOf(A, b - W)

\* T < 2^W
FitsWidth(T, W) == \A b \in 0..30 : b >= W => BitOf(T, b) = 0

\* The data-register scan vjtag_vir_scan has queued.
QueuedVirDr == queue[Len(queue) - 1]

\* riscv_tap_vjtag_init is between its call of vjtag_vir_scan and its return.
InSmokeTest == pc \in {"L330", "L274"} /\ caller = "init"

----------------------------------------------------------------------------
(* C1 *)

\* C1 as stated: when enumeration has finished, for every position k at which
\* the hub returned a Virtual JTAG node, vjtag_node_address = k + 1.
C1_EveryVjtagPosition ==
    pc = "L269" =>
        \A k \in VjtagPositions : vjtag_node_address = k + 1

\* C1 (amended): when enumeration has finished, vjtag_node_address = k + 1
\* for the position k of the last node with the Virtual JTAG id, that is for
\* every Virtual JTAG position k that no later Virtual JTAG position follows.
C1_LastVjtagPosition ==
    pc = "L269" =>
        /\ EnumComplete
        /\ \A k \in VjtagPositions :
            (\A j \in VjtagPositions : j <= k) => vjtag_node_address = k + 1

C1_Witness ==
    /\ pc = "L269"
    /\ DevN = 3
    /\ VjtagPositions = {1}
    /\ vjtag_node_address = 2

----------------------------------------------------------------------------
(* C2 *)

\* C2: when every nibble flush succeeded and no enumerated node has the
\* Virtual JTAG id, riscv_tap_vjtag_init does not call the scanner, and once it
\* has returned it has returned ERROR_FAIL with vjtag_node_address = -1, the
\* nibble scans being the last scans queued (3 + 8 + 8N in all, none pending).
C2_NoVjtagNode ==
    (EnumComplete /\ VjtagPositions = {}) =>
        /\ ~InSmokeTest
        /\ virs = <<>>
        /\ pc = "idle" =>
            /\ ret = [fn |-> "init", val |-> ERROR_FAIL]
            /\ vjtag_node_address = -1
            /\ nscan = 3 + 8 + 8 * DevN
            /\ queue = <<>>

C2_Witness ==
    /\ pc = "idle"
    /\ EnumComplete
    /\ DevN = 2
    /\ VjtagPositions = {}
    /\ ret = [fn |-> "init", val |-> ERROR_FAIL]

----------------------------------------------------------------------------
(* C3 *)

\* C3: once a flush of discovery's own (the select batch or a nibble scan;
\* vjtag_vir_scan not yet called) has failed, riscv_tap_vjtag_init has returned
\* that flush's error code, and no scan was queued and no flush attempted
\* after the failing one.
C3_AbortOnFlushFailure ==
    (fail.at # 0 /\ virs = <<>>) =>
        /\ pc = "idle"
        /\ ret = [fn |-> "init", val |-> fail.code]
        /\ nflush = fail.at
        /\ nscan = fail.scans
        /\ queue = <<>>

\* The third of the eight hub nibble flushes fails.
C3_Witness ==
    /\ pc = "idle"
    /\ fail.at = 4
    /\ virs = <<>>
    /\ nscan = 3 + 3
    /\ ret = [fn |-> "init", val |-> ERROR_JTAG_QUEUE_FAILED]

----------------------------------------------------------------------------
(* C4 *)

\* C4: after the eight nibbles v0..v7 of a register, the accumulator equals
\* v7<<28 | ... | v0<<0, for the hub register and for every node register
\* (node_info is carried over from node to node).
C4_NibbleAssembly ==
    /\ (pc = "L201" /\ i = 8) => hub_info = Assembled(nibs)
    /\ (pc = "L246" /\ i = 8) => node_info = Assembled(nibs)

\* A second node read over the remains of a first one that differs from it.
C4_Witness ==
    /\ pc = "L246"
    /\ i = 8
    /\ node_index = 1
    /\ dev[2].ver = 31
    /\ dev[3].ver = 0
    /\ node_info = Assembled(nibs)
    /\ nibs[3] = 14
    /\ nibs[6] = 4

----------------------------------------------------------------------------
(* C5 *)

\* C5: whenever vjtag_vir_scan has queued its scans for a node address A >= 1,
\* width W = m_width and a target T < 2^W, the data-register scan is
\* guess_addr_width(nb_nodes) + W bits long and shifts out (A << W) | T.
C5_PayloadComposed ==
    (pc = "L330" /\ vjtag_node_address >= 1 /\ FitsWidth(vir_val, m_width)) =>
        /\ QueuedVirDr.kind = "dr"
        /\ QueuedVirDr.num_bits = guess_addr_width(nb_nodes) + m_width
        /\ QueuedVirDr.out =
              [b \in 0..(guess_addr_width(nb_nodes) + m_width - 1) |->
                  ComposedBit(vjtag_node_address, m_width, vir_val, b)]

----------------------------------------------------------------------------
(* C6 *)

\* The hub reports two nodes and m_width 4; node 0 is a Signal TAP, node 1 a
\* Virtual JTAG node.
C6_Scenario ==
    /\ Len(dev) = 3
    /\ dev[1].id = 2
    /\ dev[1].low = 4
    /\ dev[2].id = SIGNAL_TAP_NODE_ID
    /\ dev[3].id = VJTAG_NODE_ID

\* C6: in that scenario, a discovery whose flushes all succeeded has returned
\* ERROR_OK with vjtag_node_address = 2, and a vjtag_vir_scan(tap, 0x10) that
\* follows queues a 6-bit data-register scan shifting out 0x30.
C6_EndToEnd ==
    [][(pc = "idle" /\ ret.fn = "init" /\ fail = NoFail /\ C6_Scenario) =>
          /\ ret.val = ERROR_OK
          /\ vjtag_node_address = 2
          /\ (pc' = "L330" /\ vir_val' = 16) =>
                /\ Len(queue') = 3
                /\ queue'[2] = [kind |-> "dr", num_bits |-> 6,
                                has_out |-> TRUE, capture |-> FALSE,
                                out |-> [b \in 0..5 |-> BitOf(48, b)]]]_vars

C6_Witness ==
    /\ pc = "L330"
    /\ caller = "ext"
    /\ vir_val = 16
    /\ nb_nodes = 2
    /\ m_width = 4
    /\ vjtag_node_address = 2
    /\ queue[2].num_bits = 6
    /\ queue[2].out = [b \in 0..5 |-> BitOf(48, b)]

----------------------------------------------------------------------------
(* C7 *)

\* C7: when enumeration completed and a Virtual JTAG node was found, discovery
\* has not called vjtag_vir_scan before the end of enumeration, calls it with
\* 0x10 and only once, and returns what that call returned, the scanner's
\* flush being the one flush after the 1 + 8 + 8N of enumeration.
C7_SmokeTest ==
    (EnumComplete /\ VjtagPositions # {} /\ pc \notin {"L201", "L206"}) =>
        /\ pc \in {"L244", "L246", "L269"} => virs = <<>>
        /\ InSmokeTest => virs = <<16>>
        /\ pc = "idle" =>
            /\ virs = <<16>>
            /\ ret = [fn |-> "init", val |-> vret]
            /\ nflush = 1 + 8 + 8 * DevN + 1
            /\ fail.at # 0 => (fail.at = nflush /\ fail.code = vret)

\* The smoke test's flush fails and discovery returns its error.
C7_Witness ==
    /\ pc = "idle"
    /\ EnumComplete
    /\ VjtagPositions # {}
    /\ virs = <<16>>
    /\ ret = [fn |-> "init", val |-> ERROR_JTAG_QUEUE_FAILED]

----------------------------------------------------------------------------
(* C8 *)

\* C8: vjtag_vir_scan called while vjtag_node_address is -1 queues no scan.
C8_SentinelGuarded ==
    (pc = "L330" /\ vjtag_node_address = -1) => queue = <<>>

----------------------------------------------------------------------------
(* C9 *)

\* C9: while no call of riscv_tap_vjtag_init has returned, and after a call of
\* it that returned a failure, vjtag_node_address = -1.
C9_SentinelFaithful ==
    /\ (pc = "idle" /\ ret.fn = "init" /\ ret.val # ERROR_OK) =>
            vjtag_node_address = -1
    /\ (pc = "idle" /\ ret.fn = "none") => vjtag_node_address = -1

----------------------------------------------------------------------------
(* C10 *)

\* C10: once the hub word is decoded, nb_nodes is the node count field and
\* m_width the width field the hub shifted out, whatever its version and
\* manufacturer fields; and the id decoded from an assembled node register is
\* the id field the hub shifted out.
C10_FieldDecoding ==
    /\ (pc \in {"L244", "L246", "L251", "L269"} \/ InSmokeTest) =>
            /\ nb_nodes = dev[1].id
            /\ m_width = dev[1].low
    /\ (pc = "L246" /\ i = 8) => ID(node_info) = dev[Len(dev)].id

C10_Witness ==
    /\ pc = "L244"
    /\ dev[1] = [ver |-> 31, id |-> 3, manuf |-> 1134, low |-> 5]
    /\ nb_nodes = 3
    /\ m_width = 5

----------------------------------------------------------------------------
(* C11 *)

\* The payload vjtag_vir_scan has queued holds the two fields apart: its low
\* m_width bits are the target VIR value and the bits above them are
\* vjtag_node_address.
PayloadFields ==
    LET scan == QueuedVirDr
    IN  /\ FitsWidth(vir_val, m_width)
        /\ \A b \in 0..(scan.num_bits - 1) :
            scan.out[b] = IF b < m_width
                          THEN BitOf(vir_val, b)
                          ELSE BitOf(vjtag_node_address, b - m_width)

\* C11: whenever vjtag_vir_scan has queued its scans, as discovery's smoke
\* test or as the call that follows a successful discovery, the low m_width
\* bits of the payload are the target VIR value and the bits above them are
\* vjtag_node_address, whatever m_width the hub reported.
C11_FieldsApart ==
    [][(pc' = "L330" /\ (caller' = "init"
                         \/ (ret.fn = "init" /\ ret.val = ERROR_OK)))
        => PayloadFields']_vars

----------------------------------------------------------------------------
(* C12 *)

\* riscv_tap_vjtag_init has reset vjtag_node_address (line 241) and has not
\* returned yet.
AfterReset == pc \in {"L244", "L246", "L251", "L269"} \/ InSmokeTest

\* C12: within one discovery run, once vjtag_node_address holds a node address
\* no later step of that run assigns it another value.
C12_SetAtMostOnce ==
    [][(AfterReset /\ vjtag_node_address >= 1)
        => vjtag_node_address' = vjtag_node_address]_vars

----------------------------------------------------------------------------
(* C13 *)

\* w = ceil(log2(n + 1)): 2^(w-1) < n + 1 <= 2^w.
IsCeilLog2(w, n) ==
    /\ w \in 0..8
    /\ 2^w > n
    /\ w > 0 => 2^(w - 1) <= n

\* C13: for every node count 0..255 guess_addr_width(nb_nodes) is
\* ceil(log2(nb_nodes + 1)), so every address 0..nb_nodes is below 2^width;
\* and that is the number of bits the queued scan has above the m_width
\* value bits.
C13_WidthIsCeilLog2 ==
    /\ nb_nodes \in 0..MaxNodeCount
    /\ IsCeilLog2(guess_addr_width(nb_nodes), nb_nodes)
    /\ \A a \in 0..nb_nodes : a < 2^guess_addr_width(nb_nodes)
    /\ pc = "L330" => IsCeilLog2(QueuedVirDr.num_bits - m_width, nb_nodes)

C13_Witness ==
    /\ pc = "L330"
    /\ nb_nodes = 128
    /\ m_width = 5
    /\ QueuedVirDr.num_bits = 13

----------------------------------------------------------------------------
(* C14 *)

\* An instruction-register scan of the TAP's IR length shifting in opcode.
IsIrScanOf(cmd, opcode) ==
    /\ cmd.kind = "ir"
    /\ cmd.num_bits = tap.ir_length
    /\ cmd.has_out
    /\ \A b \in 0..(cmd.num_bits - 1) : cmd.out[b] = BitOf(opcode, b)

\* A data-register scan of n bits with no out value: zeros are shifted.
IsZeroDrScan(cmd, n) ==
    /\ cmd.kind = "dr"
    /\ cmd.num_bits = n
    /\ ~cmd.has_out

\* C14: at the first flush the queue holds, in this order, the TAP reset, the
\* IR scan USER1 (0x0E), the 64-bit all-zero DR scan and the IR scan USER0
\* (0x0C), and no four-bit nibble scan has been queued; a nibble scan is in
\* the queue only after the first flush has succeeded, and at every later
\* flush of the two read loops the queue holds exactly one of them.
C14_QueueOrder ==
    /\ pc = "L194" =>
            /\ Len(queue) = 4
            /\ queue[1].kind = "tlr"
            /\ IsIrScanOf(queue[2], 14)
            /\ IsZeroDrScan(queue[3], 64) /\ ~queue[3].capture
            /\ IsIrScanOf(queue[4], 12)
            /\ nflush = 0
            /\ nscan = 3
    /\ \A k \in 1..Len(queue) :
            (queue[k].kind = "dr" /\ queue[k].num_bits = 4
             /\ queue[k].capture) =>
                /\ pc \in {"L206", "L251"}
                /\ nflush >= 1
                /\ fail = NoFail
    /\ pc \in {"L206", "L251"} =>
            /\ Len(queue) = 1
            /\ IsZeroDrScan(queue[1], 4) /\ queue[1].capture
            /\ nscan = nflush + 3

C14_Witness ==
    /\ pc = "L251"
    /\ node_index = 1
    /\ i = 7
    /\ nflush = 24
    /\ Len(queue) = 1
    /\ queue[1].num_bits = 4

----------------------------------------------------------------------------
(* C15 *)

\* The four-bit scans queued during this call: every scan but the three of
\* the hub selection and the three of a vjtag_vir_scan call.
NibbleScans == nscan - 3 - 3 * Len(virs)

\* With every flush successful, enumeration ends after one read of the hub
\* word and 8 + 8 * nb_nodes four-bit scans, nb_nodes as the hub reported it.
C15_ScanCount ==
    /\ pc = "L269" =>
            /\ fail = NoFail
            /\ nb_nodes = DevN
            /\ Len(dev) = 1 + nb_nodes
            /\ NibbleScans = 8 + 8 * nb_nodes
            /\ nflush = 1 + NibbleScans
    /\ (pc = "idle" /\ ret.fn = "init" /\ fail = NoFail) =>
            NibbleScans = 8 + 8 * nb_nodes
    /\ (pc = "L269" /\ nb_nodes = 0) => nscan = 11 /\ dev = <<dev[1]>>

\* C15: with every flush returning, a started riscv_tap_vjtag_init returns;
\* and when all its flushes succeed it reads the hub word once and issues
\* exactly 8 + 8 * nb_nodes four-bit scans, none for a node when nb_nodes = 0.
C15_TerminatesWithScanCount ==
    /\ []C15_ScanCount
    /\ (pc = "L194") ~> (pc = "idle" /\ ret.fn = "init")

C15_Witness ==
    /\ pc = "L269"
    /\ fail = NoFail
    /\ nb_nodes = 3
    /\ nscan = 35

----------------------------------------------------------------------------
(* C16 *)

\* What the one flush of this vjtag_vir_scan call returned.
FlushResult == IF fail = NoFail THEN ERROR_OK ELSE fail.code

\* C16: when vjtag_vir_scan reaches its flush the queue holds exactly three
\* scans - the IR scan USER1 (0x0E), a DR scan of dr_length bits with an out
\* value, the IR scan USER0 (0x0C) - in that order; a call from outside has
\* flushed exactly once when it returns, and what the call returns, to the
\* outside or to riscv_tap_vjtag_init, is the result of that flush.
C16_ThreeScansOneFlush ==
    /\ pc = "L330" =>
            /\ Len(queue) = 3
            /\ IsIrScanOf(queue[1], 14)
            /\ queue[2].kind = "dr"
            /\ queue[2].has_out /\ ~queue[2].capture
            /\ queue[2].num_bits = guess_addr_width(nb_nodes) + m_width
            /\ IsIrScanOf(queue[3], 12)
            /\ fail = NoFail
            /\ caller = "ext" => nflush = 0 /\ nscan = 3
    /\ (pc = "idle" /\ ret.fn = "vir") =>
            /\ nflush = 1
            /\ nscan = 3
            /\ queue = <<>>
            /\ ret.val = FlushResult
            /\ fail # NoFail => fail.at = 1 /\ fail.scans = 3
    /\ pc = "L274" =>
            /\ vret = FlushResult
            /\ queue = <<>>
            /\ nflush = 2 + NibbleScans
            /\ fail # NoFail => fail.at = nflush

C16_Witness ==
    /\ pc = "idle"
    /\ ret = [fn |-> "vir", val |-> ERROR_JTAG_QUEUE_FAILED]
    /\ virs = <<5>>
    /\ nflush = 1
    /\ vjtag_node_address = 2

----------------------------------------------------------------------------
(* C17 *)

\* C17: the steps of vjtag_vir_scan - queueing its scans and flushing them,
\* whatever the flush returns - leave nb_nodes, m_width and
\* vjtag_node_address as they were; and a call with the same target VIR value
\* as the call before it queues the same three scans.
C17_ScannerFrame ==
    /\ [][(pc' = "L330" \/ pc = "L330") => statics' = statics]_vars
    /\ [](pc = "L330" /\ prev.valid /\ prev.vir = vir_val
            => queue = prev.scans)

C17_Witness ==
    /\ pc = "L330"
    /\ caller = "ext"
    /\ prev.valid
    /\ prev.vir = 16
    /\ vir_val = 16
    /\ vret = 0
    /\ statics = <<2, 4, 2>>
    /\ queue = prev.scans

----------------------------------------------------------------------------
(* C18 *)

----------------------------------------------------------------------------
(* C19 *)

\* C19: when vjtag_vir_scan has queued its scans, the length of the DR scan,
\* guess_addr_width(nb_nodes) + m_width, is at most the 32 bits of the buffer
\* t, and every set bit of the node address lands on a bit of the 32-bit
\* payload, m_width places up.
C19_ScanFitsBuffer ==
    pc = "L330" =>
        /\ QueuedVirDr.num_bits <= 32
        /\ guess_addr_width(nb_nodes) + m_width <= 32
        /\ vjtag_node_address >= 1 =>
                \A b \in 0..30 :
                    BitOf(vjtag_node_address, b) = 1 => m_width + b <= 31

----------------------------------------------------------------------------
(* C20 *)

\* riscv_tap_vjtag_init has not read the whole hub word yet: it is at the
\* first flush or in the loop of the eight hub nibbles.
BeforeDecode == pc \in {"L194", "L206"} \/ (pc = "L201" /\ i < 8)

\* C20: entering riscv_tap_vjtag_init and every step it takes before the
\* whole hub word is read - a return on a failed first flush or on a failed
\* hub nibble flush among them - leave nb_nodes, m_width and
\* vjtag_node_address as they were before the call.
C20_EarlyFailureFrame ==
    [][(pc' = "L194" \/ BeforeDecode) => statics' = statics]_vars

C20_Witness ==
    /\ pc = "idle"
    /\ ret = [fn |-> "init", val |-> ERROR_JTAG_QUEUE_FAILED]
    /\ fail.at = 5
    /\ statics = <<2, 4, 2>>

====
